---- MODULE Spec2Model ----
(***************************************************************************)
(* A2A protocol server (src/a2a/server.py, src/a2a/models.py): the task    *)
(* store, the three task operations behind the JSON-RPC and REST facades,  *)
(* the shared-secret check and the calls to the agent graph.               *)
(*                                                                         *)
(* The server runs on one asyncio event loop: the code of a handler        *)
(* between two awaits runs without interleaving.  handle_task_send has one *)
(* await that touches the store's neighbourhood, the call of the agent     *)
(* graph (server.py:306), so it is two steps: everything up to the await,  *)
(* and everything after it.  handle_task_get and handle_task_cancel have   *)
(* no await and are one step each.                                         *)
(*                                                                         *)
(* TaskStatus.timestamp (models.py:59) is wall-clock time and is left out. *)
(***************************************************************************)
EXTENDS Integers, Sequences, FiniteSets, TLC

VARIABLES
    API_KEY,   \* server.py:38, read once at import
    tasks,     \* server.py:35, the store: task id -> Task
    calls,     \* the handle_task_send coroutines suspended at server.py:306
    last       \* the handler step just taken and its response, until it is sent

vars == <<API_KEY, tasks, calls, last>>

----------------------------------------------------------------------------
(* Bounds of the model *)

\* submissions accepted (a user message appended) over all tasks
MaxSubmits == 2

----------------------------------------------------------------------------
(* Python values *)

\* None, and a key that a dict does not hold
None == "<None>"
\* a truthy value that is not a str (123, [1], {"a": 1})
NonStr == "<non-str>"

Truthy(v) == v \notin {None, ""}
IsStr(v) == v \notin {None, NonStr}
\* d.get(k, default) where v is d's value at k, None when k is absent
Get(v, default) == IF v = None THEN default ELSE v
\* a or b
PyOr(a, b) == IF Truthy(a) THEN a ELSE b

RECURSIVE Reversed(_)
Reversed(s) == IF s = <<>> THEN <<>> ELSE Append(Reversed(Tail(s)), Head(s))

IsPrefix(s, t) == Len(s) <= Len(t) /\ SubSeq(t, 1, Len(s)) = s

----------------------------------------------------------------------------
(* Data model: src/a2a/models.py *)

SUBMITTED == "submitted"
WORKING == "working"
INPUT_REQUIRED == "input-required"
COMPLETED == "completed"
CANCELED == "canceled"
FAILED == "failed"
TaskState == {SUBMITTED, WORKING, INPUT_REQUIRED, COMPLETED, CANCELED, FAILED}

Part(type, text) == [type |-> type, text |-> text, mimeType |-> None, data |-> None]

Message(role, parts) == [role |-> role, parts |-> parts]

\* TaskStatus.message when it is None
NoMessage == [role |-> None, parts |-> <<>>]

Artifact(name, parts, index, lastChunk) ==
    [name |-> name, description |-> None, parts |-> parts,
     index |-> index, append |-> FALSE, lastChunk |-> lastChunk]

TaskStatus(state, message) == [state |-> state, message |-> message]

Task(id, sessionId) ==
    [id |-> id, sessionId |-> sessionId,
     status |-> TaskStatus(SUBMITTED, NoMessage),
     history |-> <<>>, artifacts |-> <<>>, metadata |-> <<>>]

(* model_dump(by_alias=True, exclude_none=True): a dict of the fields that *)
(* are not None, nested models dumped the same way.                        *)
DumpPart(p) ==
    [k \in {"type", "text", "mimeType", "data"} \ {k \in {"text", "mimeType", "data"} : p[k] = None}
        |-> p[k]]

DumpParts(ps) == [i \in 1..Len(ps) |-> DumpPart(ps[i])]

DumpMessage(m) == [role |-> m.role, parts |-> DumpParts(m.parts)]

DumpArtifact(a) ==
    LET all == [name |-> a.name, description |-> a.description,
                parts |-> DumpParts(a.parts)]
        kept == {"parts"} \cup {k \in {"name", "description"} : all[k] # None}
    IN  [k \in kept |-> all[k]] @@
        [index |-> a.index, append |-> a.append, lastChunk |-> a.lastChunk]

DumpStatus(s) ==
    IF s.message = NoMessage
    THEN [state |-> s.state]
    ELSE [state |-> s.state, message |-> DumpMessage(s.message)]

model_dump(t) ==
    LET body == [id |-> t.id,
                 status |-> DumpStatus(t.status),
                 history |-> [i \in 1..Len(t.history) |-> DumpMessage(t.history[i])],
                 artifacts |-> [i \in 1..Len(t.artifacts) |-> DumpArtifact(t.artifacts[i])],
                 metadata |-> t.metadata]
    IN  IF t.sessionId = None THEN body ELSE body @@ [sessionId |-> t.sessionId]

----------------------------------------------------------------------------
(* uuid4(): a value nothing carries yet.  Identifiers are opaque, so one   *)
(* canonical fresh value stands for any: the first unused name of a pool   *)
(* for a task id, and a name derived from the task id for the session id   *)
(* generated beside it (session ids are carried, never compared).          *)

UuidPool == <<"uuid-1">>

UnusedUuids(store) == {i \in 1..Len(UuidPool) : UuidPool[i] \notin DOMAIN store}

\* server.py:245, str(uuid4())
NewTaskId(store) ==
    LET U == UnusedUuids(store)
    IN  UuidPool[CHOOSE i \in U : \A j \in U : i <= j]

\* server.py:246, str(uuid4())
NewSessionId(task_id) == "uuid-session-" \o task_id

\* whether server.py:245 calls uuid4() for these params
NeedsTaskId(params) == ~Truthy(params.id)

----------------------------------------------------------------------------
(* Request payloads.  A payload is a record with every recognised key, None *)
(* where the key is absent.  params.message is [kind, parts, text, content],*)
(* kind "absent" (no key, or a falsy value), "dict", or "other" (a truthy   *)
(* value that is no dict).  A part is [kind, type, hasText, text], kind     *)
(* "dict", "str" (text holds the string) or "other".                        *)

NoMessageData == [kind |-> "absent", parts |-> <<>>, text |-> None, content |-> None]

EmptyParams ==
    [id |-> None, sessionId |-> None, session_id |-> None, message |-> NoMessageData,
     text |-> None, content |-> None, query |-> None, prompt |-> None, input |-> None]

DictPart(type, hasText, text) ==
    [kind |-> "dict", type |-> type, hasText |-> hasText, text |-> text]

\* server.py:255-262: the loop over parts; user_text when it ends
RECURSIVE PartsText(_)
PartsText(parts) ==
    IF parts = <<>> THEN ""
    ELSE LET part == Head(parts) IN
         IF part.kind = "dict"
         THEN IF part.type = "text" \/ part.hasText
              THEN (IF part.hasText THEN part.text ELSE "")
              ELSE PartsText(Tail(parts))
         ELSE IF part.kind = "str" THEN part.text
         ELSE PartsText(Tail(parts))

\* a variant that reads the top-level content before the top-level text
UserTextContentFirst(params) ==
    LET message_data == params.message
        t1 == IF message_data.kind = "dict" THEN PartsText(message_data.parts) ELSE ""
        t2 == IF ~Truthy(t1) /\ message_data.kind = "dict"
              THEN PyOr(Get(message_data.text, ""), Get(message_data.content, ""))
              ELSE t1
        t3 == IF ~Truthy(t2)
              THEN PyOr(PyOr(Get(params.content, ""), Get(params.text, "")),
                        Get(params.query, ""))
              ELSE t2
        t4 == IF ~Truthy(t3) THEN Get(params.prompt, "") ELSE t3
        t5 == IF ~Truthy(t4) THEN Get(params.input, "") ELSE t4
    IN  t5

\* server.py:249-277: user_text when line 279 is reached
UserText(params) ==
    LET message_data == params.message
        t1 == IF message_data.kind = "dict" THEN PartsText(message_data.parts) ELSE ""
        t2 == IF ~Truthy(t1) /\ message_data.kind = "dict"
              THEN PyOr(Get(message_data.text, ""), Get(message_data.content, ""))
              ELSE t1
        t3 == IF ~Truthy(t2)
              THEN PyOr(PyOr(Get(params.text, ""), Get(params.content, "")),
                        Get(params.query, ""))
              ELSE t2
        t4 == IF ~Truthy(t3) THEN Get(params.prompt, "") ELSE t3
        t5 == IF ~Truthy(t4) THEN Get(params.input, "") ELSE t4
    IN  t5

----------------------------------------------------------------------------
(* Exceptions, by their str() *)

NoContentFound == "No text content found in request"
TaskNotFound == "Task not found"
ValidationError == "validation error"
AttributeError == "object has no attribute 'get'"

----------------------------------------------------------------------------
(* The conversation handed to the agent graph, and its answer *)

HumanMessage(content) == [type |-> "human", content |-> content]
AIMessage(content) == [type |-> "ai", content |-> content]
ToolMessage(content) == [type |-> "tool", content |-> content]

\* server.py:298-303 for one history message
RECURSIVE MessageTurns(_, _)
MessageTurns(role, parts) ==
    IF parts = <<>> THEN <<>>
    ELSE LET part == Head(parts)
             rest == MessageTurns(role, Tail(parts))
         IN  IF Truthy(part.text)
             THEN <<IF role = "user" THEN HumanMessage(part.text)
                    ELSE AIMessage(part.text)>> \o rest
             ELSE rest

\* server.py:296-303
RECURSIVE LangchainMessages(_)
LangchainMessages(history) ==
    IF history = <<>> THEN <<>>
    ELSE MessageTurns(Head(history).role, Head(history).parts)
         \o LangchainMessages(Tail(history))

\* server.py:309-313, given reversed(result["messages"])
RECURSIVE FirstAIContent(_)
FirstAIContent(msgs) ==
    IF msgs = <<>> THEN ""
    ELSE IF Head(msgs).type = "ai" /\ Truthy(Head(msgs).content)
         THEN Head(msgs).content
         ELSE FirstAIContent(Tail(msgs))

ResponseText(result_messages) == FirstAIContent(Reversed(result_messages))

----------------------------------------------------------------------------
(* handle_task_send, server.py:242-332 *)

\* server.py:283-287: the store after "create or update task"
\* a variant that makes a fresh Task on every submission
AlwaysCreate(store, task_id, session_id) ==
    [k \in DOMAIN store \cup {task_id} |->
        IF k = task_id THEN Task(task_id, session_id) ELSE store[k]]

\* a variant that moves an existing task to the session of the submit
GetOrCreateAdoptingSession(store, task_id, session_id) ==
    IF task_id \in DOMAIN store
    THEN [store EXCEPT ![task_id].sessionId = session_id]
    ELSE store @@ (task_id :> Task(task_id, session_id))

GetOrCreate(store, task_id, session_id) ==
    IF task_id \in DOMAIN store THEN store
    ELSE store @@ (task_id :> Task(task_id, session_id))

\* a variant that adds the user message and leaves the status as it is
StartRunKeepingStatus(task, user_text) ==
    [task EXCEPT
        !.history = Append(@, Message("user", <<Part("text", user_text)>>))]

\* a variant that starts every run with no artifacts
StartRunClearingArtifacts(task, user_text) ==
    [task EXCEPT
        !.history = Append(@, Message("user", <<Part("text", user_text)>>)),
        !.status = TaskStatus(WORKING, NoMessage),
        !.artifacts = <<>>]

\* a variant that sets the state of the status it finds and keeps its message
StartRunKeepingMessage(task, user_text) ==
    [task EXCEPT
        !.history = Append(@, Message("user", <<Part("text", user_text)>>)),
        !.status.state = WORKING]

\* server.py:289-292: add the user message, set WORKING
StartRun(task, user_text) ==
    [task EXCEPT
        !.history = Append(@, Message("user", <<Part("text", user_text)>>)),
        !.status = TaskStatus(WORKING, NoMessage)]

\* a variant that keeps the artifact of the last run only
CompleteTaskSingleArtifact(task, response_text) ==
    LET agent_message == Message("agent", <<Part("text", response_text)>>) IN
    [task EXCEPT
        !.history = Append(@, agent_message),
        !.status = TaskStatus(COMPLETED, agent_message),
        !.artifacts = <<Artifact("response", <<Part("text", response_text)>>, 0, TRUE)>>]

\* a variant seen between its writes: the status is set, the history and the
\* artifacts are not yet appended to
CompleteTaskStatusFirst(task, response_text) ==
    LET agent_message == Message("agent", <<Part("text", response_text)>>) IN
    [task EXCEPT !.status = TaskStatus(COMPLETED, agent_message)]

\* a variant that numbers the artifacts of a task
CompleteTaskNumberingArtifacts(task, response_text) ==
    LET agent_message == Message("agent", <<Part("text", response_text)>>) IN
    [task EXCEPT
        !.history = Append(@, agent_message),
        !.status = TaskStatus(COMPLETED, agent_message),
        !.artifacts = Append(@, Artifact("response", <<Part("text", response_text)>>,
                                         Len(task.artifacts), TRUE))]

\* server.py:315-326: update the task with the response, add the artifact
CompleteTask(task, response_text) ==
    LET agent_message == Message("agent", <<Part("text", response_text)>>) IN
    [task EXCEPT
        !.history = Append(@, agent_message),
        !.status = TaskStatus(COMPLETED, agent_message),
        !.artifacts = Append(@, Artifact("response", <<Part("text", response_text)>>, 0, TRUE))]

\* a variant that also records the error message in the history
FailTaskAppendingHistory(task, e) ==
    LET agent_message == Message("agent", <<Part("text", "Error: " \o e)>>) IN
    [task EXCEPT
        !.history = Append(@, agent_message),
        !.status = TaskStatus(FAILED, agent_message)]

\* server.py:328-330: the except branch; e is str(e)
FailTask(task, e) ==
    [task EXCEPT
        !.status = TaskStatus(FAILED, Message("agent", <<Part("text", "Error: " \o e)>>))]

\* the outcome of a handler step: the exception raised (None: none), the
\* store it leaves, the task it worked on, and where it went
Outcome(exc, store, task_id, path) ==
    [exc |-> exc, tasks |-> store, task_id |-> task_id, path |-> path]

\* a variant that gets or creates the task before it looks for the text
handle_task_send_allocating_first(params, store) ==
    LET task_id == IF Truthy(params.id) THEN params.id ELSE NewTaskId(store)
        given == PyOr(params.sessionId, params.session_id)
        session_id == IF Truthy(given) THEN given
                      ELSE NewSessionId(IF IsStr(task_id) THEN task_id ELSE "")
        user_text == UserText(params)
        created == GetOrCreate(store, task_id, session_id)
    IN  IF params.message.kind = "other"
        THEN Outcome(AttributeError, store, task_id, "raised")
        ELSE IF ~IsStr(task_id)
        THEN Outcome(ValidationError, store, task_id, "raised")
        ELSE IF task_id \notin DOMAIN store /\ ~IsStr(session_id)
        THEN Outcome(ValidationError, store, task_id, "raised")
        ELSE IF ~Truthy(user_text)
        THEN Outcome(NoContentFound, created, task_id, "raised")
        ELSE IF ~IsStr(user_text)
        THEN Outcome(ValidationError, created, task_id, "raised")
        ELSE Outcome(None,
                     [created EXCEPT ![task_id] = StartRun(@, user_text)],
                     task_id, "awaiting")

\* server.py:242-303: from the call to the await of agent_graph.ainvoke
handle_task_send(params, store) ==
    LET task_id == IF Truthy(params.id) THEN params.id ELSE NewTaskId(store)
        given == PyOr(params.sessionId, params.session_id)
        session_id == IF Truthy(given) THEN given
                      ELSE NewSessionId(IF IsStr(task_id) THEN task_id ELSE "")
        user_text == UserText(params)
        created == GetOrCreate(store, task_id, session_id)
    IN  IF params.message.kind = "other"
        THEN Outcome(AttributeError, store, task_id, "raised")
        ELSE IF ~Truthy(user_text)
        THEN Outcome(NoContentFound, store, task_id, "raised")
        ELSE IF ~IsStr(task_id)
        THEN Outcome(ValidationError, store, task_id, "raised")
        ELSE IF task_id \notin DOMAIN store /\ ~IsStr(session_id)
        THEN Outcome(ValidationError, store, task_id, "raised")
        ELSE IF ~IsStr(user_text)
        THEN Outcome(ValidationError, created, task_id, "raised")
        ELSE Outcome(None,
                     [created EXCEPT ![task_id] = StartRun(@, user_text)],
                     task_id, "awaiting")

\* a variant that drops the result of a run whose task was canceled meanwhile
handle_task_send_returned_unless_canceled(task_id, result_messages, store) ==
    IF store[task_id].status.state = CANCELED
    THEN Outcome(None, store, task_id, "completed")
    ELSE Outcome(None,
                 [store EXCEPT ![task_id] = CompleteTask(@, ResponseText(result_messages))],
                 task_id, "completed")

\* a variant that writes the result of a run to every task that is WORKING
handle_task_send_returned_everywhere(task_id, result_messages, store) ==
    Outcome(None,
            [k \in DOMAIN store |->
                IF k = task_id \/ store[k].status.state = WORKING
                THEN CompleteTask(store[k], ResponseText(result_messages))
                ELSE store[k]],
            task_id, "completed")

\* server.py:306-332 when ainvoke returns result_messages
handle_task_send_returned(task_id, result_messages, store) ==
    Outcome(None,
            [store EXCEPT ![task_id] = CompleteTask(@, ResponseText(result_messages))],
            task_id, "completed")

\* a variant without the except branch: the executor's error leaves the handler
handle_task_send_propagating(task_id, e, store) ==
    Outcome(e, store, task_id, "failed")

\* server.py:306, 328-332 when ainvoke raises e
handle_task_send_raised(task_id, e, store) ==
    Outcome(None, [store EXCEPT ![task_id] = FailTask(@, e)], task_id, "failed")

----------------------------------------------------------------------------
(* handle_task_get, server.py:335-342, and handle_task_cancel, 345-353 *)

handle_task_get(params, store) ==
    IF ~Truthy(params.id) \/ params.id \notin DOMAIN store
    THEN Outcome(TaskNotFound, store, params.id, "raised")
    ELSE Outcome(None, store, params.id, "returned")

\* a variant that refuses to cancel a finished task
CancelTaskUnlessTerminal(task) ==
    IF task.status.state \in {COMPLETED, FAILED} THEN task
    ELSE [task EXCEPT !.status = TaskStatus(CANCELED, NoMessage)]

\* a variant that also discards what the canceled task has produced
CancelTaskDiscardingArtifacts(task) ==
    [task EXCEPT !.status = TaskStatus(CANCELED, NoMessage), !.artifacts = <<>>]

\* server.py:352
CancelTask(task) ==
    [task EXCEPT !.status = TaskStatus(CANCELED, NoMessage)]

\* a variant that creates the task it is asked to cancel
handle_task_cancel_creating(params, store) ==
    IF ~Truthy(params.id) THEN Outcome(TaskNotFound, store, params.id, "raised")
    ELSE Outcome(None,
                 [k \in DOMAIN store \cup {params.id} |->
                    IF k # params.id THEN store[k]
                    ELSE CancelTask(IF k \in DOMAIN store THEN store[k]
                                    ELSE Task(k, NewSessionId(k)))],
                 params.id, "returned")

handle_task_cancel(params, store) ==
    IF ~Truthy(params.id) \/ params.id \notin DOMAIN store
    THEN Outcome(TaskNotFound, store, params.id, "raised")
    ELSE Outcome(None, [store EXCEPT ![params.id] = CancelTask(@)], params.id, "returned")

----------------------------------------------------------------------------
(* verify_api_key, server.py:41-54.  A header value and the key are         *)
(* sequences of atoms: "Bearer " (the prefix with its space), " " (white    *)
(* space) and atoms that hold neither; <<>> is the empty or missing value.  *)

DefaultKey == <<"demo-api-key-12345">>

\* authorization.replace("Bearer ", "")
RemoveBearer(s) == SelectSeq(s, LAMBDA a : a # "Bearer ")

\* str.strip()
RECURSIVE LStrip(_)
LStrip(s) == IF s # <<>> /\ Head(s) = " " THEN LStrip(Tail(s)) ELSE s
Strip(s) == Reversed(LStrip(Reversed(LStrip(s))))

\* the detail of the HTTPException raised, None when the check passes
verify_api_key(authorization) ==
    IF API_KEY = <<>> THEN None
    ELSE IF authorization = <<>> THEN "Missing Authorization header"
    ELSE IF Strip(RemoveBearer(authorization)) # API_KEY THEN "Invalid API key"
    ELSE None

----------------------------------------------------------------------------
(* Responses *)

NotFoundCode == -32601
ErrorCode == -32000
HttpOk == 200
HttpBadRequest == 400
HttpUnauthorized == 401
HttpServerError == 500

\* a JSON null in a response body
JsonNull == [null |-> TRUE]

\* no response: the request's coroutine is suspended
NoResponse == [http |-> 0, body |-> JsonNull]

\* models.py:148-153 as FastAPI sends it
JSONRPCResponse(id, result, error) ==
    [http |-> HttpOk,
     body |-> [jsonrpc |-> "2.0", result |-> result, error |-> error, id |-> id]]

\* server.py:166 and 186: the result of an operation, per facade
ResultResponse(facade, id, result) ==
    IF facade = "rpc" THEN JSONRPCResponse(id, result, JsonNull)
    ELSE [http |-> HttpOk, body |-> result]

\* server.py:168-172: handle_jsonrpc's except branch
RpcErrorResponse(id, e) ==
    JSONRPCResponse(id, JsonNull, [code |-> ErrorCode, message |-> e])

\* server.py:187-192: task_send's except branch
RestSendErrorResponse(e) ==
    [http |-> HttpBadRequest,
     body |-> [error |-> e, detail |-> "Failed to process request"]]

\* server.py:200 and 208: nothing catches what the handler raises
RestUnhandledResponse(e) ==
    [http |-> HttpServerError, body |-> [text |-> "Internal Server Error"]]

\* server.py:47 and 52, raised by the Depends(verify_api_key) of every route
UnauthorizedResponse(detail) ==
    [http |-> HttpUnauthorized, body |-> [detail |-> detail]]

----------------------------------------------------------------------------
(* The inputs of the model *)

ExplicitIds == {"t1"}
RpcIds == {"req-1"}
\* Authorization headers: none, the key, the key behind the prefix, a wrong
\* key, and the key behind the prefix written twice or with a second space
Authorizations ==
    {<<>>, DefaultKey, <<"Bearer ">> \o DefaultKey, <<"Bearer ", "wrong">>,
     <<"Bearer ", "Bearer ">> \o DefaultKey, <<"Bearer ", " ">> \o DefaultKey}
ExecutorErrors == {"boom"}

\* what the agent graph appends to the conversation it was given: an answer
\* after a tool call, or a last message without content
ExecutorReplies ==
    {<<AIMessage(""), ToolMessage("58F"), AIMessage("ok")>>,
     <<AIMessage("")>>}

\* ids a caller can name: its own, and those the server has handed out
CallerIds == ExplicitIds \cup DOMAIN tasks

\* payloads that carry a text, by two of the shapes server.py:251-277 reads
TextContents ==
    {[EmptyParams EXCEPT !.message =
        [kind |-> "dict", parts |-> <<DictPart("text", TRUE, "hi")>>,
         text |-> None, content |-> None]],
     [EmptyParams EXCEPT !.prompt = "hi"]}

\* payloads without a text, and with a text that is no string
BadContents == {EmptyParams, [EmptyParams EXCEPT !.text = NonStr]}

\* the sessionId and session_id fields: neither given
SessionFields == {<<None, None>>}

SendParams ==
    {[c EXCEPT !.id = i, !.sessionId = s[1], !.session_id = s[2]] :
        c \in TextContents, i \in CallerIds \cup {None}, s \in SessionFields}
    \cup {[c EXCEPT !.id = i] : c \in BadContents, i \in CallerIds \cup {None}}

\* params of tasks/get and tasks/cancel
IdParams == {[EmptyParams EXCEPT !.id = i] : i \in CallerIds \cup {None}}

\* the {"id": task_id} the REST routes build from the path
PathParams == {[EmptyParams EXCEPT !.id = i] : i \in CallerIds}

Routes ==
    {<<"rpc", "any">>, <<"rest", "send">>, <<"rest", "get">>, <<"rest", "cancel">>}

----------------------------------------------------------------------------
(* The state machine *)

RECURSIVE CountRole(_, _)
CountRole(history, role) ==
    IF history = <<>> THEN 0
    ELSE (IF Head(history).role = role THEN 1 ELSE 0) + CountRole(Tail(history), role)

RECURSIVE SumOver(_, _)
SumOver(store, ids) ==
    IF ids = {} THEN 0
    ELSE LET k == CHOOSE k \in ids : TRUE
         IN  CountRole(store[k].history, "user") + SumOver(store, ids \ {k})

\* submissions accepted so far
NumSubmits(store) == SumOver(store, DOMAIN store)

StateOf(store, task_id) ==
    IF task_id \in DOMAIN store THEN store[task_id].status.state ELSE None

(* The record of a handler step.  event: what set the handler going, a    *)
(* "request", the agent graph having "returned" or "raised", or "refused"  *)
(* when verify_api_key stopped the request; op and facade: the operation   *)
(* and the facade of the request; task_id and before: the task the handler *)
(* named and its state before the step (None: not in the store); path and  *)
(* exc: what the handler did; arg: the user text of a send request, the    *)
(* error of a raising agent graph; params: the payload of a send request;  *)
(* resp: the response, NoResponse when the handler suspended.              *)
Step(event, op, facade, out, arg, resp) ==
    [event |-> event, op |-> op, facade |-> facade, task_id |-> out.task_id,
     before |-> StateOf(tasks, out.task_id),
     path |-> out.path, exc |-> out.exc, arg |-> arg, params |-> None,
     resp |-> resp]

\* no handler step is waiting for its response to be written
Idle ==
    [event |-> "none", op |-> "none", facade |-> "none", task_id |-> None,
     before |-> None, path |-> "none", exc |-> None, arg |-> None,
     params |-> None, resp |-> NoResponse]

Init ==
    /\ API_KEY \in {<<>>, DefaultKey}
    /\ tasks = <<>>
    /\ calls = {}
    /\ last = Idle

\* the event loop writes the response of the step just taken (or, for a
\* coroutine that suspended, goes on to the next event)
ResponseSent ==
    /\ last # Idle
    /\ last' = Idle
    /\ UNCHANGED <<API_KEY, tasks, calls>>

\* the check passes for some header value a caller can send
Authorized == {a \in Authorizations : verify_api_key(a) = None} # {}

\* a request refused by Depends(verify_api_key), on any route
Unauthorized(facade, op, authorization) ==
    /\ last = Idle
    /\ verify_api_key(authorization) # None
    /\ last' = Step("refused", op, facade,
                    Outcome(verify_api_key(authorization), tasks, None, "refused"),
                    None, UnauthorizedResponse(verify_api_key(authorization)))
    /\ UNCHANGED <<API_KEY, tasks, calls>>

\* what a facade answers when handle_task_send is over: server.py:166 and
\* 168-172 behind JSON-RPC, 186 and 187-192 behind REST
SendResponse(facade, id, out) ==
    IF out.exc = None
    THEN ResultResponse(facade, id, model_dump(out.tasks[out.task_id]))
    ELSE IF facade = "rpc" THEN RpcErrorResponse(id, out.exc)
    ELSE RestSendErrorResponse(out.exc)

\* handle_task_send up to its await, behind either facade
TaskSendBegins(facade, id, params) ==
    /\ last = Idle
    /\ NeedsTaskId(params) => UnusedUuids(tasks) # {}
    /\ LET out == handle_task_send(params, tasks) IN
        /\ out.path = "awaiting" => NumSubmits(tasks) < MaxSubmits
        /\ tasks' = out.tasks
        /\ IF out.path = "awaiting"
           THEN /\ calls' = calls \cup
                        {[facade |-> facade, id |-> id, task_id |-> out.task_id,
                          messages |-> LangchainMessages(out.tasks[out.task_id].history)]}
                /\ last' = [Step("request", "send", facade, out, UserText(params),
                                 NoResponse) EXCEPT !.params = params]
           ELSE /\ calls' = calls
                /\ last' = [Step("request", "send", facade, out, UserText(params),
                                 SendResponse(facade, id, out))
                            EXCEPT !.params = params]
    /\ UNCHANGED API_KEY

\* POST / with method tasks/send, server.py:154-155
RpcTasksSend(id, params) ==
    /\ Authorized
    /\ TaskSendBegins("rpc", id, params)

\* POST /tasks/send, server.py:175-192
RestTaskSend(params) ==
    /\ Authorized
    /\ TaskSendBegins("rest", None, params)

\* the rest of handle_task_send, and the facade's answer
TaskSendEnds(call, event, arg, out) ==
    /\ last = Idle
    /\ call \in calls
    /\ tasks' = out.tasks
    /\ calls' = calls \ {call}
    /\ last' = Step(event, "send", call.facade, out, arg,
                    SendResponse(call.facade, call.id, out))
    /\ UNCHANGED API_KEY

\* agent_graph.ainvoke returns: server.py:306-326, 332
ExecutorReturns(call, reply) ==
    TaskSendEnds(call, "returned", None,
                 handle_task_send_returned(call.task_id, call.messages \o reply, tasks))

\* agent_graph.ainvoke raises: server.py:306, 328-332
ExecutorRaises(call, e) ==
    TaskSendEnds(call, "raised", e, handle_task_send_raised(call.task_id, e, tasks))

\* a handler without awaits behind the JSON-RPC facade: server.py:156-159, 166-172
RpcCall(op, out, id) ==
    /\ last = Idle
    /\ tasks' = out.tasks
    /\ last' = Step("request", op, "rpc", out, None,
                    IF out.exc = None
                    THEN ResultResponse("rpc", id, model_dump(out.tasks[out.task_id]))
                    ELSE RpcErrorResponse(id, out.exc))
    /\ UNCHANGED <<API_KEY, calls>>

\* a variant that waits for a lock held across the agent graph's call
RestCallBehindLock(op, out) ==
    /\ last = Idle
    /\ calls = {}
    /\ tasks' = out.tasks
    /\ last' = Step("request", op, "rest", out, None,
                    IF out.exc = None
                    THEN ResultResponse("rest", None, model_dump(out.tasks[out.task_id]))
                    ELSE RestUnhandledResponse(out.exc))
    /\ UNCHANGED <<API_KEY, calls>>

\* a variant that answers from a copy of the store and leaves the store alone
RestCallOnCopy(op, out) ==
    /\ last = Idle
    /\ tasks' = tasks
    /\ last' = Step("request", op, "rest", out, None,
                    IF out.exc = None
                    THEN ResultResponse("rest", None, model_dump(out.tasks[out.task_id]))
                    ELSE RestUnhandledResponse(out.exc))
    /\ UNCHANGED <<API_KEY, calls>>

\* a handler without awaits behind a REST route: server.py:200, 208
RestCall(op, out) ==
    /\ last = Idle
    /\ tasks' = out.tasks
    /\ last' = Step("request", op, "rest", out, None,
                    IF out.exc = None
                    THEN ResultResponse("rest", None, model_dump(out.tasks[out.task_id]))
                    ELSE RestUnhandledResponse(out.exc))
    /\ UNCHANGED <<API_KEY, calls>>

\* POST / with method tasks/get
RpcTasksGet(id, params) ==
    /\ Authorized
    /\ RpcCall("get", handle_task_get(params, tasks), id)

\* POST / with method tasks/cancel
RpcTasksCancel(id, params) ==
    /\ Authorized
    /\ RpcCall("cancel", handle_task_cancel(params, tasks), id)

\* POST / with any other method, server.py:160-164
RpcMethodNotFound(id) ==
    /\ Authorized
    /\ last = Idle
    /\ last' = Step("request", "other", "rpc", Outcome(None, tasks, None, "returned"),
                    None,
                    JSONRPCResponse(id, JsonNull,
                        [code |-> NotFoundCode, message |-> "Method not found"]))
    /\ UNCHANGED <<API_KEY, tasks, calls>>

\* GET /tasks/{task_id}, server.py:194-200
RestTaskGet(params) ==
    /\ Authorized
    /\ RestCall("get", handle_task_get(params, tasks))

\* POST /tasks/{task_id}/cancel, server.py:202-208
RestTaskCancel(params) ==
    /\ Authorized
    /\ RestCall("cancel", handle_task_cancel(params, tasks))

Next ==
    \/ \E r \in Routes, a \in Authorizations : Unauthorized(r[1], r[2], a)
    \/ \E id \in RpcIds, p \in SendParams : RpcTasksSend(id, p)
    \/ \E p \in SendParams : RestTaskSend(p)
    \/ \E c \in calls, r \in ExecutorReplies : ExecutorReturns(c, r)
    \/ \E c \in calls, e \in ExecutorErrors : ExecutorRaises(c, e)
    \/ \E id \in RpcIds, p \in IdParams : RpcTasksGet(id, p)
    \/ \E id \in RpcIds, p \in IdParams : RpcTasksCancel(id, p)
    \/ \E id \in RpcIds : RpcMethodNotFound(id)
    \/ \E p \in PathParams : RestTaskGet(p)
    \/ \E p \in PathParams : RestTaskCancel(p)
    \/ ResponseSent

Spec == Init /\ [][Next]_vars

----------------------------------------------------------------------------
(* The claims *)

\* the Task in the response of the step just taken
ReturnedTask ==
    IF last.facade = "rpc" THEN last.resp.body.result ELSE last.resp.body

TextOf(m) == m.parts[1].text

HistoryOf(store, k) == IF k \in DOMAIN store THEN store[k].history ELSE <<>>

\* this step appends exactly one message, of the given role, to task k's history
AppendsOne(k, role) ==
    LET h == HistoryOf(tasks, k)
        h2 == HistoryOf(tasks', k)
    IN  /\ Len(h2) = Len(h) + 1
        /\ SubSeq(h2, 1, Len(h)) = h
        /\ h2[Len(h2)].role = role

\* the Task t is completed, its history ends with an agent message that carries
\* the text of its last artifact, and every artifact has index 0 and lastChunk
CompletedWithArtifact(t) ==
    LET n == Len(t.history)
        m == Len(t.artifacts)
    IN  /\ t.status.state = COMPLETED
        /\ n > 0 /\ m > 0
        /\ t.history[n].role = "agent"
        /\ TextOf(t.history[n]) = TextOf(t.artifacts[m])
        /\ \A i \in 1..m : t.artifacts[i].index = 0 /\ t.artifacts[i].lastChunk

\* C1 as stated: after a submit whose executor call succeeded, first or
\* resubmitted, the returned Task is COMPLETED, its history ends with an agent
\* message equal to the artifact's text, and it holds exactly one artifact,
\* with index 0 and lastChunk true.
C1_ExactlyOneArtifact ==
    last.event = "returned" =>
        /\ last.exc = None
        /\ last.resp.http = HttpOk
        /\ CompletedWithArtifact(ReturnedTask)
        /\ Len(ReturnedTask.artifacts) = 1

\* C1 amended: after a submit whose executor call succeeded, the returned Task
\* is COMPLETED, its history ends with an agent message equal to the text of
\* its last artifact, and it holds one artifact per successful run of that id
\* (as many artifacts as agent messages), each with index 0 and lastChunk true.
C1_OneArtifactPerRun ==
    last.event = "returned" =>
        /\ last.exc = None
        /\ last.resp.http = HttpOk
        /\ CompletedWithArtifact(ReturnedTask)
        /\ Len(ReturnedTask.artifacts) = CountRole(ReturnedTask.history, "agent")

\* a resubmission has succeeded on a task that had succeeded before
C1_ResubmissionSucceeded ==
    /\ last.event = "returned"
    /\ last.before = WORKING
    /\ Len(ReturnedTask.artifacts) = 2

\* C2: when the executor call of a submit raises, handle_task_send does not
\* raise: the facade answers with a result (HTTP success, no error envelope)
\* that is the Task, FAILED, its status message an agent message whose text
\* embeds the error.
C2_ExecutorFailureCaptured ==
    last.event = "raised" =>
        /\ last.exc = None
        /\ last.resp.http = HttpOk
        /\ last.facade = "rpc" =>
            last.resp.body.error = JsonNull /\ last.resp.body.result # JsonNull
        /\ ReturnedTask.status.state = FAILED
        /\ "message" \in DOMAIN ReturnedTask.status
        /\ ReturnedTask.status.message.role = "agent"
        /\ TextOf(ReturnedTask.status.message) = "Error: " \o last.arg

\* the executor call of a submit sent over JSON-RPC has raised
C2_FailedOverRpc ==
    /\ last.event = "raised"
    /\ last.facade = "rpc"
    /\ last.arg = "boom"
    /\ tasks[last.task_id].status.state = FAILED

\* the paths of the lifecycle state machine
LifecyclePaths ==
    {<<SUBMITTED, WORKING>>, <<WORKING, COMPLETED>>, <<WORKING, FAILED>>,
     <<WORKING, CANCELED>>, <<SUBMITTED, CANCELED>>,
     <<COMPLETED, WORKING>>, <<FAILED, WORKING>>, <<CANCELED, WORKING>>}

\* a terminal state written over another one: by cancel on a finished task, by
\* a run that ends after a cancel, by a run that ends after an overlapping run
TerminalOverwrites ==
    {<<COMPLETED, CANCELED>>, <<FAILED, CANCELED>>,
     <<CANCELED, COMPLETED>>, <<CANCELED, FAILED>>,
     <<COMPLETED, FAILED>>, <<FAILED, COMPLETED>>}

\* every stored task stays stored, and a change of its state is in `paths`
StateChangesWithin(paths) ==
    \A k \in DOMAIN tasks :
        /\ k \in DOMAIN tasks'
        /\ tasks'[k].status.state # tasks[k].status.state =>
            <<tasks[k].status.state, tasks'[k].status.state>> \in paths

\* C3 as stated: every change of a stored task's status.state follows a path
\* of the lifecycle state machine, and no other change ever occurs.
C3_OnlyLifecyclePaths == [][StateChangesWithin(LifecyclePaths)]_vars

\* C3 amended: every change of a stored task's status.state follows a path of
\* the lifecycle state machine or writes one terminal state over another
\* (COMPLETED or FAILED to CANCELED by cancel, CANCELED to COMPLETED or FAILED
\* and COMPLETED to FAILED or back by a run that ends late); no state changes
\* to SUBMITTED or INPUT_REQUIRED, and SUBMITTED changes only to WORKING or
\* CANCELED.
C3_LifecycleOrOverwrite ==
    [][StateChangesWithin(LifecyclePaths \cup TerminalOverwrites)]_vars

\* a run that was started on a task never started before has ended after
\* a cancel
C3_EndedAfterCancel ==
    /\ last.event \in {"returned", "raised"}
    /\ last.before = CANCELED
    /\ tasks[last.task_id].status.state \in {COMPLETED, FAILED}

\* C4: cancel on an id present in the store succeeds and leaves the task
\* CANCELED, whatever its state was and whether or not a run is in flight.
C4_CancelKnownId ==
    (last.event = "request" /\ last.op = "cancel" /\ last.before # None) =>
        /\ last.exc = None
        /\ last.resp.http = HttpOk
        /\ tasks[last.task_id].status.state = CANCELED
        /\ ReturnedTask.status.state = CANCELED

\* a task was canceled while a run of it was in flight
C4_CanceledInFlight ==
    /\ last.event = "request" /\ last.op = "cancel"
    /\ last.before = WORKING
    /\ \E c \in calls : c.task_id = last.task_id

\* C5: a cancel during a submit's executor call sets CANCELED and leaves the
\* call in flight; when the call ends, the submit still appends its agent
\* message and artifact and writes COMPLETED (FAILED when the call raises)
\* over CANCELED: of cancel and completion, the write that lands last wins.
C5_CancelDoesNotInterrupt ==
    [][/\ (/\ last'.event = "request" /\ last'.op = "cancel"
           /\ \E c \in calls : c.task_id = last'.task_id)
          => /\ calls' = calls
             /\ tasks'[last'.task_id].status.state = CANCELED
       /\ (last'.event = "returned" /\ last'.before = CANCELED)
          => /\ tasks'[last'.task_id].status.state = COMPLETED
             /\ AppendsOne(last'.task_id, "agent")
             /\ Len(tasks'[last'.task_id].artifacts)
                    = Len(tasks[last'.task_id].artifacts) + 1
       /\ (last'.event = "raised" /\ last'.before = CANCELED)
          => tasks'[last'.task_id].status.state = FAILED
       /\ (/\ last'.event = "request" /\ last'.op = "cancel"
           /\ last'.before \in {COMPLETED, FAILED})
          => tasks'[last'.task_id].status.state = CANCELED
      ]_vars

\* the executor call returned after the task was canceled, and the task is
\* COMPLETED with the run's artifact
C5_CompletedAfterCancel ==
    /\ last.event = "returned"
    /\ last.before = CANCELED
    /\ tasks[last.task_id].status.state = COMPLETED
    /\ Len(tasks[last.task_id].artifacts) = 1

\* an accepted submission appends one user message
AcceptedAppendsUser ==
    (last'.event = "request" /\ last'.op = "send" /\ last'.exc = None)
        => AppendsOne(last'.task_id, "user")

\* a run whose executor call returned appends one agent message
CompletedAppendsAgent ==
    last'.event = "returned" => AppendsOne(last'.task_id, "agent")

\* C6 as stated: every accepted submission appends exactly one user message
\* to the history, and every run that ends, completed or failed, appends
\* exactly one agent message to it.
C6_EveryRunAppendsAgent ==
    [][/\ AcceptedAppendsUser
       /\ CompletedAppendsAgent
       /\ last'.event = "raised" => AppendsOne(last'.task_id, "agent")
      ]_vars

\* C6 amended: every accepted submission appends exactly one user message to
\* the history and every completed run appends exactly one agent message to
\* it; a failed run appends nothing: its agent message is carried by
\* status.message alone.
C6_FailedRunAppendsNothing ==
    [][/\ AcceptedAppendsUser
       /\ CompletedAppendsAgent
       /\ last'.event = "raised" =>
            /\ tasks'[last'.task_id].history = tasks[last'.task_id].history
            /\ tasks'[last'.task_id].status.message.role = "agent"
      ]_vars

\* a run has failed on a task whose history holds its user message only
C6_FailedRun ==
    /\ last.event = "raised"
    /\ Len(tasks[last.task_id].history) = 1
    /\ tasks[last.task_id].status.state = FAILED

\* C7: a task's history and artifacts only grow at the end: what they hold in
\* a state is a prefix of what they hold in every later state.
C7_AppendOnly ==
    [][\A k \in DOMAIN tasks :
        /\ k \in DOMAIN tasks'
        /\ IsPrefix(tasks[k].history, tasks'[k].history)
        /\ IsPrefix(tasks[k].artifacts, tasks'[k].artifacts)]_vars

\* a task has been through two completed runs
C7_TwoRunsRecorded ==
    \E k \in DOMAIN tasks :
        Len(tasks[k].history) = 4 /\ Len(tasks[k].artifacts) = 2

\* C8: submits with one id mutate one Task: every entry's key is the id of the
\* task stored under it and no stored task's id changes; a submit with an id
\* already in the store leaves the set of entries as it was and the task's
\* history strictly longer.
C8_OneTaskPerId ==
    [][/\ \A k \in DOMAIN tasks' : tasks'[k].id = k
       /\ \A k \in DOMAIN tasks : k \in DOMAIN tasks' /\ tasks'[k].id = tasks[k].id
       /\ (/\ last'.event = "request" /\ last'.op = "send" /\ last'.exc = None
           /\ last'.task_id \in DOMAIN tasks)
          => /\ DOMAIN tasks' = DOMAIN tasks
             /\ Len(tasks'[last'.task_id].history) > Len(tasks[last'.task_id].history)
      ]_vars

\* a second submit with the id of a task was accepted while the first one's
\* executor call is still in flight
C8_OverlappingResubmit ==
    /\ last.event = "request" /\ last.op = "send" /\ last.exc = None
    /\ last.before = WORKING
    /\ Cardinality({c \in calls : c.task_id = last.task_id}) = 2
    /\ Len(tasks[last.task_id].history) = 2

\* C9: a submit whose payload yields no non-empty text fails with
\* NoContentFound, answered as a request error, and leaves the store as it
\* was: no task is created, not even for an unseen id, and an existing task
\* keeps its history, status and artifacts.
C9_NoContentLeavesStore ==
    [][(last'.event = "request" /\ last'.op = "send" /\ ~Truthy(last'.arg))
        => /\ last'.exc = NoContentFound
           /\ tasks' = tasks
           /\ calls' = calls
           /\ IF last'.facade = "rpc"
              THEN /\ last'.resp.http = HttpOk
                   /\ last'.resp.body.result = JsonNull
                   /\ last'.resp.body.error =
                        [code |-> ErrorCode, message |-> NoContentFound]
              ELSE /\ last'.resp.http = HttpBadRequest
                   /\ last'.resp.body.error = NoContentFound
      ]_vars

\* a submit without text named an id the store does not hold, and the store
\* still does not hold it
C9_UnseenIdNotCreated ==
    /\ last.event = "request" /\ last.op = "send"
    /\ last.exc = NoContentFound
    /\ last.task_id = "t1"
    /\ "t1" \notin DOMAIN tasks
    /\ DOMAIN tasks # {}

\* C10: query and cancel on an id the store does not hold, or without an id,
\* fail with TaskNotFound and leave the store as it was.
C10_UnknownIdNotFound ==
    [][(/\ last'.event = "request" /\ last'.op \in {"get", "cancel"}
        /\ last'.task_id \notin DOMAIN tasks)
        => /\ last'.exc = TaskNotFound
           /\ tasks' = tasks
           /\ calls' = calls
      ]_vars

\* a cancel named an id the store does not hold, while it holds another task
C10_CancelUnknown ==
    /\ last.event = "request" /\ last.op = "cancel"
    /\ last.exc = TaskNotFound
    /\ last.task_id = "t1"
    /\ DOMAIN tasks = {"uuid-1"}

\* C11: the start of a run (user message appended, WORKING set) and its
\* completion (agent message appended, COMPLETED set carrying it, artifact
\* appended) are each one step, so in every state, whatever else is in flight,
\* a COMPLETED task has a history that ends with the agent message of its
\* status and a last artifact with the same text, a WORKING task has a history
\* that ends with a user message, and a query answers with such a Task.
C11_NoTornTask ==
    /\ \A k \in DOMAIN tasks :
        LET t == tasks[k]
            n == Len(t.history)
            m == Len(t.artifacts)
        IN  /\ t.status.state = COMPLETED =>
                /\ n > 0 /\ m > 0
                /\ t.history[n] = t.status.message
                /\ t.status.message.role = "agent"
                /\ TextOf(t.artifacts[m]) = TextOf(t.status.message)
            /\ t.status.state = WORKING =>
                /\ n > 0
                /\ t.history[n].role = "user"
                /\ t.status.message = NoMessage
    /\ (last.event = "request" /\ last.op = "get" /\ last.exc = None) =>
        /\ ReturnedTask = model_dump(tasks[last.task_id])
        /\ ReturnedTask.status.state = COMPLETED =>
            /\ ReturnedTask.history[Len(ReturnedTask.history)]
                    = ReturnedTask.status.message
            /\ TextOf(ReturnedTask.artifacts[Len(ReturnedTask.artifacts)])
                    = TextOf(ReturnedTask.status.message)

\* a query saw a task COMPLETED by one run while another run of it is in flight
C11_QueriedBetweenRuns ==
    /\ last.event = "request" /\ last.op = "get" /\ last.exc = None
    /\ ReturnedTask.status.state = COMPLETED
    /\ \E c \in calls : c.task_id = last.task_id

----------------------------------------------------------------------------
(* Callers that each work on a task of their own: every id is submitted    *)
(* with a text of its own, and the agent graph answers the conversation's  *)
(* last turn by name, so that a message can be told from another's.        *)

DistinctIds == {"a", "b"}

OwnText(k) == "from " \o k

OwnParams(k) == [EmptyParams EXCEPT !.id = k, !.text = OwnText(k)]

\* the agent graph's answer to the last turn of the conversation it was given
EchoReply(messages) == <<AIMessage("re: " \o messages[Len(messages)].content)>>

NextDistinct ==
    \/ \E id \in RpcIds, k \in DistinctIds : RpcTasksSend(id, OwnParams(k))
    \/ \E k \in DistinctIds : RestTaskSend(OwnParams(k))
    \/ \E c \in calls : ExecutorReturns(c, EchoReply(c.messages))
    \/ \E c \in calls, e \in ExecutorErrors : ExecutorRaises(c, e)
    \/ \E id \in RpcIds, k \in DistinctIds : RpcTasksGet(id, [EmptyParams EXCEPT !.id = k])
    \/ \E id \in RpcIds, k \in DistinctIds : RpcTasksCancel(id, [EmptyParams EXCEPT !.id = k])
    \/ \E k \in DistinctIds : RestTaskGet([EmptyParams EXCEPT !.id = k])
    \/ \E k \in DistinctIds : RestTaskCancel([EmptyParams EXCEPT !.id = k])
    \/ ResponseSent

SpecDistinct == Init /\ [][NextDistinct]_vars

\* the task t, stored under k, holds nothing but what k's own runs wrote
HoldsOnlyOwn(k, t) ==
    /\ t.id = k
    /\ \A i \in 1..Len(t.history) :
        TextOf(t.history[i]) =
            IF t.history[i].role = "user" THEN OwnText(k) ELSE "re: " \o OwnText(k)
    /\ \A i \in 1..Len(t.artifacts) : TextOf(t.artifacts[i]) = "re: " \o OwnText(k)
    /\ t.status.message # NoMessage =>
        TextOf(t.status.message) \in {"re: " \o OwnText(k)} \cup
                                     {"Error: " \o e : e \in ExecutorErrors}

\* C12: a step of an operation on one task leaves every other task of the
\* store, and every other task's executor call, as it was and adds no entry
\* but its own; so with submits of distinct ids in flight together, in any
\* interleaving, each entry holds only its own user messages, agent replies
\* and artifacts.
C12_TasksIndependent ==
    [][/\ \A k \in DOMAIN tasks :
            k # last'.task_id => k \in DOMAIN tasks' /\ tasks'[k] = tasks[k]
       /\ DOMAIN tasks' \subseteq DOMAIN tasks \cup {last'.task_id}
       /\ \A c \in calls : c.task_id # last'.task_id => c \in calls'
       /\ \A c \in calls' \ calls : c.task_id = last'.task_id
       /\ \A k \in DOMAIN tasks' : HoldsOnlyOwn(k, tasks'[k])
      ]_vars

\* one task's run has completed while the other task's run is in flight, and
\* each holds its own messages
C12_CompletedBesideRunning ==
    /\ last.event = "returned" /\ last.task_id = "a"
    /\ tasks["a"].status.state = COMPLETED
    /\ TextOf(tasks["a"].history[2]) = "re: from a"
    /\ \E c \in calls : c.task_id = "b"
    /\ tasks["b"].status.state = WORKING
    /\ TextOf(tasks["b"].history[1]) = "from b"

----------------------------------------------------------------------------

\* every request a caller with a valid key can make about the task k can be
\* handled now
RequestsEnabled(k) ==
    LET p == [EmptyParams EXCEPT !.id = k] IN
    /\ ENABLED RestTaskGet(p)
    /\ ENABLED RestTaskCancel(p)
    /\ \A id \in RpcIds : ENABLED RpcTasksGet(id, p) /\ ENABLED RpcTasksCancel(id, p)

\* every submit the model's bounds leave room for can be handled now
SubmitsEnabled(ids) ==
    \A p \in SendParams :
        (/\ p.id \in ids
         /\ NeedsTaskId(p) => UnusedUuids(tasks) # {}
         /\ NumSubmits(tasks) < MaxSubmits)
        => /\ ENABLED RestTaskSend(p)
           /\ \A id \in RpcIds : ENABLED RpcTasksSend(id, p)

\* C13: while submits are suspended in their executor calls no lock is held:
\* query and cancel of every task, the suspended ones included, and submit of
\* every other task can be handled at once, each suspended call can end
\* whatever the others do, and a query or cancel handled meanwhile has
\* answered in its own step.
C13_NoLockHeld ==
    /\ (last = Idle /\ Authorized /\ calls # {}) =>
        /\ \A k \in CallerIds : RequestsEnabled(k)
        /\ SubmitsEnabled((CallerIds \cup {None}) \ {c.task_id : c \in calls})
        /\ \A c \in calls :
            /\ \A r \in ExecutorReplies : ENABLED ExecutorReturns(c, r)
            /\ \A e \in ExecutorErrors : ENABLED ExecutorRaises(c, e)
    /\ (/\ calls # {} /\ last.event = "request" /\ last.op \in {"get", "cancel"}
        /\ last.before # None)
       => /\ last.exc = None
          /\ last.resp.http = HttpOk
          /\ ReturnedTask.id = last.task_id

\* a query was answered with a WORKING task while two tasks' executor calls
\* are in flight
C13_QueriedWhileSuspended ==
    /\ last.event = "request" /\ last.op = "get" /\ last.exc = None
    /\ ReturnedTask.status.state = WORKING
    /\ Cardinality({c.task_id : c \in calls}) = 2

----------------------------------------------------------------------------

\* the header's value with one "Bearer " prefix, if it has one, taken off
WithoutPrefix(authorization) ==
    IF authorization # <<>> /\ Head(authorization) = "Bearer "
    THEN Tail(authorization) ELSE authorization

\* no secret is configured, or the header's value matches it, with or without
\* the prefix
MatchesSecret(authorization) ==
    \/ API_KEY = <<>>
    \/ authorization # <<>> /\ WithoutPrefix(authorization) = API_KEY

\* a request that carries this header is refused on every route
Refused(authorization) ==
    \A r \in Routes : ENABLED Unauthorized(r[1], r[2], authorization)

\* a request that carries this header passes Depends(verify_api_key) and its
\* handler runs
Dispatched(authorization) ==
    /\ verify_api_key(authorization) = None
    /\ \A k \in CallerIds : RequestsEnabled(k)
    /\ \A id \in RpcIds : ENABLED RpcMethodNotFound(id)

\* C14 as stated: with a secret configured, a request whose Authorization
\* header is missing, or whose value with an optional "Bearer " prefix taken
\* off differs from the secret, is refused with an authentication failure
\* before dispatch and leaves the store as it was; a request whose value
\* matches, with or without the prefix, is dispatched; with no secret every
\* request is dispatched.
C14_RefusedUnlessMatching ==
    [][/\ last = Idle =>
            \A a \in Authorizations :
                IF MatchesSecret(a)
                THEN Dispatched(a) /\ ~Refused(a)
                ELSE Refused(a) /\ ~Dispatched(a)
       /\ last'.event = "refused" =>
            /\ last'.resp.http = HttpUnauthorized
            /\ tasks' = tasks
            /\ calls' = calls
      ]_vars

----------------------------------------------------------------------------

\* the step ended a JSON-RPC request in an error of the taxonomy
RpcErrorStep(step) ==
    /\ step.facade = "rpc"
    /\ \/ step.event = "refused"
       \/ step.op = "other"
       \/ step.event = "request" /\ step.exc \in {NoContentFound, TaskNotFound}

\* C15 as stated: every RPC request that ends in AuthenticationFailed,
\* MethodNotFound, NoContentFound or TaskNotFound is answered with an error
\* that echoes the envelope's id; an unknown method yields the method-not-found
\* error and invokes no operation; an error raised by submit, query or cancel
\* is wrapped as {id, error: {code, message}} with the generic code, never as
\* a result.
C15_RpcErrorsEchoId ==
    [][/\ RpcErrorStep(last') =>
            /\ "id" \in DOMAIN last'.resp.body
            /\ last'.resp.body.id \in RpcIds
            /\ "error" \in DOMAIN last'.resp.body
            /\ last'.resp.body.error # JsonNull
       /\ (last'.facade = "rpc" /\ last'.op = "other" /\ last'.event = "request") =>
            /\ last'.resp.body.error.code = NotFoundCode
            /\ tasks' = tasks
            /\ calls' = calls
       /\ (last'.facade = "rpc" /\ last'.event = "request" /\ last'.exc # None) =>
            /\ last'.resp.body.error = [code |-> ErrorCode, message |-> last'.exc]
            /\ last'.resp.body.result = JsonNull
      ]_vars

----------------------------------------------------------------------------

\* C16 as stated: through the REST facade every operation error (submit
\* without extractable text, query or cancel of an unknown id) is answered
\* with a client-error status and the failure text, never with a server-error
\* status and never with a success status.
C16_RestErrorsAreClientErrors ==
    (last.facade = "rest" /\ last.event = "request" /\ last.exc # None) =>
        /\ last.resp.http >= 400 /\ last.resp.http < 500
        /\ "error" \in DOMAIN last.resp.body
        /\ last.resp.body.error = last.exc

----------------------------------------------------------------------------
(* The payloads of the normalizer: every recognised field absent, empty or *)
(* holding a text that names the field, and part lists of every kind the   *)
(* loop at server.py:255-262 tells apart.  They are sent to a server with  *)
(* an empty store.                                                         *)

FieldValues(name) == {None, "", name}

StrPart(text) == [kind |-> "str", text |-> text]

PartLists ==
    {<<>>,
     <<DictPart("text", TRUE, "parts")>>,
     <<DictPart("text", TRUE, "")>>,
     <<DictPart("text", FALSE, None)>>,
     <<DictPart("image", FALSE, None), DictPart("note", TRUE, "parts")>>,
     <<DictPart("text", TRUE, ""), DictPart("text", TRUE, "second part")>>,
     <<[kind |-> "number"], StrPart("parts")>>}

MessageFields ==
    {NoMessageData} \cup
    {[kind |-> "dict", parts |-> ps, text |-> t, content |-> c] :
        ps \in PartLists, t \in FieldValues("message.text"),
        c \in FieldValues("message.content")}

NormalizerPayloads ==
    {[EmptyParams EXCEPT !.message = m, !.text = t, !.content = c, !.query = q,
                         !.prompt = p, !.input = i] :
        m \in MessageFields, t \in FieldValues("text"), c \in FieldValues("content"),
        q \in FieldValues("query"), p \in FieldValues("prompt"),
        i \in FieldValues("input")}

NextNormalizer ==
    \/ /\ last = Idle /\ tasks = <<>>
       /\ \E p \in NormalizerPayloads : RestTaskSend(p)
    \/ /\ last = Idle /\ tasks = <<>>
       /\ \E id \in RpcIds, p \in NormalizerPayloads : RpcTasksSend(id, p)
    \/ \E c \in calls, r \in ExecutorReplies : ExecutorReturns(c, r)
    \/ \E c \in calls, e \in ExecutorErrors : ExecutorRaises(c, e)
    \/ ResponseSent

SpecNormalizer == Init /\ [][NextNormalizer]_vars

\* the part is of type "text", carries a text field, or is a plain string
TextBearing(part) ==
    \/ part.kind = "str"
    \/ part.kind = "dict" /\ (part.type = "text" \/ part.hasText)

\* what the nested part list supplies: the text of its first text-bearing part
PartListRule(message) ==
    LET found == {i \in 1..Len(message.parts) : TextBearing(message.parts[i])} IN
    IF found = {} THEN None
    ELSE LET part == message.parts[CHOOSE i \in found : \A j \in found : i <= j]
         IN  IF part.kind = "str" \/ part.hasText THEN part.text ELSE None

RECURSIVE FirstNonEmpty(_)
FirstNonEmpty(supplied) ==
    IF supplied = <<>> THEN None
    ELSE IF Head(supplied) \notin {None, ""} THEN Head(supplied)
    ELSE FirstNonEmpty(Tail(supplied))

\* the text of the first rule that yields one, in the order of the resolution
ResolvedText(p) ==
    FirstNonEmpty(<<PartListRule(p.message), p.message.text, p.message.content,
                    p.text, p.content, p.query, p.prompt, p.input>>)

\* C17: for every payload built from the recognised fields, each absent, empty
\* or non-empty, submit uses the text of the first rule that yields a
\* non-empty one, in the order nested part list (its first text-bearing part),
\* message text, message content, top-level text, content, query, prompt,
\* input; it fails with NoContentFound exactly when no rule yields one.
C17_FirstRuleWins ==
    [][(last'.event = "request" /\ last'.op = "send") =>
        LET text == ResolvedText(last'.params) IN
        IF text = None
        THEN last'.exc = NoContentFound /\ tasks' = tasks
        ELSE /\ last'.exc = None
             /\ LET history == tasks'[last'.task_id].history IN
                /\ history[Len(history)].role = "user"
                /\ TextOf(history[Len(history)]) = text
             /\ \E c \in calls' \ calls :
                    c.messages[Len(c.messages)] = HumanMessage(text)
      ]_vars

\* a payload whose part list starts with an empty text part, whose message
\* text is empty, and which carries content, prompt and input was resolved to
\* its content
C17_ContentBeforePrompt ==
    /\ last.event = "request" /\ last.op = "send" /\ last.exc = None
    /\ last.params.message.kind = "dict"
    /\ Len(last.params.message.parts) = 2
    /\ last.params.message.text = ""
    /\ last.params.message.content = None
    /\ last.params.text = None
    /\ last.params.content = "content"
    /\ last.params.prompt = "prompt"
    /\ last.params.input = "input"
    /\ TextOf(tasks[last.task_id].history[1]) = "content"

----------------------------------------------------------------------------

\* what the operation of a step does to the store, whatever facade carried
\* it: the outcome of the handler on the step's input
OperationOutcome(step, store) ==
    LET p == [EmptyParams EXCEPT !.id = step.task_id] IN
    CASE step.op = "send" /\ step.event = "request" -> handle_task_send(step.params, store)
      [] step.op = "send" /\ step.event = "raised" ->
            handle_task_send_raised(step.task_id, step.arg, store)
      [] step.op = "get" -> handle_task_get(p, store)
      [] step.op = "cancel" -> handle_task_cancel(p, store)

\* C18: the two facades are equivalent on the store: a submit, query or
\* cancel step, and the end of a submit's executor call, changes the store as
\* the operation on the same input does, whether it was carried over JSON-RPC
\* or over REST, and a successful operation answers with the same serialized
\* Task, the stored one, on both.
C18_FacadesAgree ==
    [][/\ (last'.event \in {"request", "raised"} /\ last'.op \in {"send", "get", "cancel"})
          => /\ tasks' = OperationOutcome(last', tasks).tasks
             /\ last'.exc = OperationOutcome(last', tasks).exc
       /\ last'.event = "returned"
          => \E c \in calls \ calls', r \in ExecutorReplies :
                /\ c.task_id = last'.task_id
                /\ tasks' = handle_task_send_returned(c.task_id, c.messages \o r, tasks).tasks
       /\ (/\ last'.event \in {"request", "returned", "raised"}
           /\ last'.op \in {"send", "get", "cancel"}
           /\ last'.exc = None /\ last'.resp # NoResponse)
          => /\ last'.resp.http = HttpOk
             /\ (IF last'.facade = "rpc" THEN last'.resp.body.result ELSE last'.resp.body)
                    = model_dump(tasks'[last'.task_id])
      ]_vars

\* a task submitted over JSON-RPC, its executor call still in flight, was
\* canceled over REST
C18_CanceledOverOtherFacade ==
    /\ last.event = "request" /\ last.op = "cancel" /\ last.facade = "rest"
    /\ last.exc = None
    /\ \E c \in calls : c.facade = "rpc" /\ c.task_id = last.task_id
    /\ last.resp.body.status.state = CANCELED

----------------------------------------------------------------------------

\* the turn a history message is projected to
TurnOf(message) ==
    IF message.role = "user" THEN HumanMessage(TextOf(message))
    ELSE AIMessage(TextOf(message))

\* C19 as stated: the conversation a submit passes to the executor is the
\* projection of the task's entire history at the moment of the call, in
\* history order: one role-tagged turn per history message, carrying its text,
\* the last one being the user message this submit appended; the messages of
\* earlier runs and of runs of the same id still in flight are among them.
C19_ConversationIsHistory ==
    [][(last'.event = "request" /\ last'.op = "send" /\ last'.exc = None) =>
        LET history == tasks'[last'.task_id].history IN
        \E c \in calls' \ calls :
            /\ c.task_id = last'.task_id
            /\ Len(c.messages) = Len(history)
            /\ \A i \in 1..Len(history) : c.messages[i] = TurnOf(history[i])
            /\ c.messages[Len(c.messages)] = HumanMessage(last'.arg)
      ]_vars

----------------------------------------------------------------------------

\* C20, as far as a finite run decides it: no task is left unfinished: once
\* no executor call for a task is outstanding, its status.state is COMPLETED,
\* FAILED or CANCELED.
C20_SettledWithoutCall ==
    \A k \in DOMAIN tasks :
        (\A c \in calls : c.task_id # k) =>
            tasks[k].status.state \in {COMPLETED, FAILED, CANCELED}

----------------------------------------------------------------------------

\* C21: query never changes the store, and cancel on a known id changes only
\* that task's status: its id, sessionId, history, artifacts and metadata, and
\* every other task, are after the call what they were before it.
C21_QueryAndCancelFrame ==
    [][/\ (last'.event = "request" /\ last'.op = "get") => tasks' = tasks
       /\ (last'.event = "request" /\ last'.op = "cancel" /\ last'.before # None) =>
            /\ DOMAIN tasks' = DOMAIN tasks
            /\ tasks' = [tasks EXCEPT ![last'.task_id].status =
                                            tasks'[last'.task_id].status]
            /\ tasks'[last'.task_id].status.state = CANCELED
      ]_vars

\* a task with a completed run was canceled while the store holds another task
C21_CanceledCompletedTask ==
    /\ last.event = "request" /\ last.op = "cancel"
    /\ last.before = COMPLETED
    /\ Len(tasks[last.task_id].history) = 2
    /\ Len(tasks[last.task_id].artifacts) = 1
    /\ Cardinality(DOMAIN tasks) = 2

----------------------------------------------------------------------------

\* C22: in every state a task's status carries a message exactly when its
\* state is COMPLETED or FAILED, and that message is an agent's: WORKING set by
\* a submission and CANCELED set by a cancel carry none, whatever terminal
\* status they replace; the serialized Task shows the same.
C22_MessageIffFinished ==
    /\ \A k \in DOMAIN tasks :
        LET status == tasks[k].status IN
        /\ (status.message # NoMessage) <=> (status.state \in {COMPLETED, FAILED})
        /\ status.message # NoMessage => status.message.role = "agent"
        /\ ("message" \in DOMAIN model_dump(tasks[k]).status)
                <=> (status.state \in {COMPLETED, FAILED})
    /\ (last.event = "request" /\ last.op \in {"send", "cancel"} /\ last.exc = None) =>
        tasks[last.task_id].status.message = NoMessage

\* a task whose run had failed was submitted again: it is WORKING and its
\* status carries no message
C22_ResubmittedAfterFailure ==
    /\ last.event = "request" /\ last.op = "send" /\ last.exc = None
    /\ last.before = FAILED
    /\ tasks[last.task_id].status = TaskStatus(WORKING, NoMessage)

----------------------------------------------------------------------------

\* the number of messages of a role in the history the store holds for k
Messages(store, k, role) ==
    IF k \in DOMAIN store THEN CountRole(store[k].history, role) ELSE 0

\* C23: for every task, the user messages of its history are as many as the
\* submits accepted for its id and the agent messages as many as the runs
\* whose executor call succeeded: an accepted submit adds one user message, a
\* successful run adds one agent message, no other step adds or removes any;
\* the artifacts are as many as the agent messages, which never exceed the
\* user messages; every artifact has index 0, append false and lastChunk true.
C23_CountsMatchRuns ==
    [][\A k \in DOMAIN tasks \cup DOMAIN tasks' :
        LET accepted == /\ last'.event = "request" /\ last'.op = "send"
                        /\ last'.exc = None /\ last'.task_id = k
            succeeded == last'.event = "returned" /\ last'.task_id = k
        IN  /\ k \in DOMAIN tasks'
            /\ Messages(tasks', k, "user") =
                    Messages(tasks, k, "user") + (IF accepted THEN 1 ELSE 0)
            /\ Messages(tasks', k, "agent") =
                    Messages(tasks, k, "agent") + (IF succeeded THEN 1 ELSE 0)
            /\ Len(tasks'[k].history) =
                    Messages(tasks', k, "user") + Messages(tasks', k, "agent")
            /\ Len(tasks'[k].artifacts) = Messages(tasks', k, "agent")
            /\ Messages(tasks', k, "agent") <= Messages(tasks', k, "user")
            /\ \A i \in 1..Len(tasks'[k].artifacts) :
                /\ tasks'[k].artifacts[i].index = 0
                /\ tasks'[k].artifacts[i].append = FALSE
                /\ tasks'[k].artifacts[i].lastChunk = TRUE
      ]_vars

\* of a task's two runs one has succeeded and then one has failed
C23_OneOfTwoRunsSucceeded ==
    /\ last.event = "raised"
    /\ CountRole(tasks[last.task_id].history, "user") = 2
    /\ CountRole(tasks[last.task_id].history, "agent") = 1
    /\ Len(tasks[last.task_id].artifacts) = 1

----------------------------------------------------------------------------
(* Callers that name a session: submits of one text with every combination *)
(* of the sessionId and session_id fields absent, empty, a text or, for    *)
(* sessionId, a value that is no string.                                   *)

SessionIdValues == {None, "", "s1", "s2", NonStr}

SnakeSessionIdValues == {None, "s3"}

SessionParams ==
    {[EmptyParams EXCEPT !.id = i, !.prompt = "hi", !.sessionId = s, !.session_id = t] :
        i \in CallerIds \cup {None}, s \in SessionIdValues, t \in SnakeSessionIdValues}

NextSession ==
    \/ \E id \in RpcIds, p \in SessionParams : RpcTasksSend(id, p)
    \/ \E p \in SessionParams : RestTaskSend(p)
    \/ \E c \in calls, r \in ExecutorReplies : ExecutorReturns(c, r)
    \/ \E c \in calls, e \in ExecutorErrors : ExecutorRaises(c, e)
    \/ \E id \in RpcIds, p \in IdParams : RpcTasksGet(id, p)
    \/ \E id \in RpcIds, p \in IdParams : RpcTasksCancel(id, p)
    \/ \E p \in PathParams : RestTaskGet(p)
    \/ \E p \in PathParams : RestTaskCancel(p)
    \/ ResponseSent

SpecSession == Init /\ [][NextSession]_vars

\* the session id the payload supplies, None when it supplies none
SuppliedSession(p) ==
    IF p.sessionId \notin {None, ""} THEN p.sessionId
    ELSE IF p.session_id \notin {None, ""} THEN p.session_id
    ELSE None

\* C24: a task's sessionId is fixed when the task is created, to the sessionId
\* or else the session_id of the submit that creates it, or else to a
\* generated value; no later step changes it, and a later submit with the
\* same id and another session id, or none, leaves it as it is.
C24_SessionFixedAtCreation ==
    [][/\ \A k \in DOMAIN tasks :
            k \in DOMAIN tasks' /\ tasks'[k].sessionId = tasks[k].sessionId
       /\ \A k \in DOMAIN tasks' \ DOMAIN tasks :
            /\ last'.event = "request" /\ last'.op = "send" /\ last'.task_id = k
            /\ tasks'[k].sessionId =
                    IF SuppliedSession(last'.params) # None
                    THEN SuppliedSession(last'.params)
                    ELSE NewSessionId(k)
            /\ IsStr(tasks'[k].sessionId) /\ Truthy(tasks'[k].sessionId)
      ]_vars

\* a task created in session s1 was submitted again with session s2, accepted,
\* and is still in session s1
C24_ResubmittedInOtherSession ==
    /\ last.event = "request" /\ last.op = "send" /\ last.exc = None
    /\ last.before # None
    /\ last.params.sessionId = "s2"
    /\ tasks[last.task_id].sessionId = "s1"

====
